---- MODULE Spec2Model ----
(***************************************************************************)
(* Key-value storage providers of rlshukhov/storage: the snapshot file     *)
(* backend (file/provider.go) and the embedded engine backend (the badger  *)
(* provider, README.md lines 78-356), behind the KeyValueProvider          *)
(* contract.  One provider instance per behaviour.  In the sequential      *)
(* specifications every public method is one action that records its call  *)
(* and its result; in SpecConc goroutines run the methods step by step,     *)
(* under p.mu of the file provider or as transactions of the engine.       *)
(***************************************************************************)
EXTENDS Integers, Sequences, FiniteSets, TLC

\* ------------------------------------------------------------------ bounds
NumKeys == 2      \* size of the key pool of each key domain
MaxKeys == 2      \* longest key list handed to GetMultiple
NumThreads == 2   \* goroutines calling one file provider at the same time

\* ------------------------------------------------------- bytes and numbers
\* A byte string is a sequence of one-character strings.
Digits == <<"0", "1", "2", "3", "4", "5", "6", "7", "8", "9">>

\* Byte order of the characters the key pools use ('0'..'9' < 'k').
Alphabet == Digits \o <<"k">>

Ord(c) == CHOOSE i \in 1..Len(Alphabet) : Alphabet[i] = c

IsDigit(c) == \E i \in 1..Len(Digits) : Digits[i] = c

DigitVal(c) == (CHOOSE i \in 1..Len(Digits) : Digits[i] = c) - 1

\* strconv.FormatUint(n, 10)
RECURSIVE FormatUint(_)
FormatUint(n) ==
    IF n < 10 THEN <<Digits[n + 1]>>
    ELSE FormatUint(n \div 10) \o <<Digits[(n % 10) + 1]>>

RECURSIVE ParseDigits(_, _)
ParseDigits(b, acc) ==
    IF b = <<>> THEN acc
    ELSE ParseDigits(Tail(b), acc * 10 + DigitVal(Head(b)))

\* strconv.ParseUint(s, 10, 64): fails on the empty string and on any
\* character that is not a decimal digit.
ParseUint(b) ==
    IF b # <<>> /\ \A i \in 1..Len(b) : IsDigit(b[i])
    THEN [ok |-> TRUE, n |-> ParseDigits(b, 0)]
    ELSE [ok |-> FALSE, n |-> 0]

\* bytes.Compare(a, b) < 0 : the engine's key order
RECURSIVE BytesLess(_, _)
BytesLess(a, b) ==
    IF b = <<>> THEN FALSE
    ELSE IF a = <<>> THEN TRUE
    ELSE IF Head(a) # Head(b) THEN Ord(Head(a)) < Ord(Head(b))
    ELSE BytesLess(Tail(a), Tail(b))

\* ------------------------------------------------------------------ errors
\* An error is the set of sentinels errors.Is finds in it; nil is empty.
Nil == {}
NotFound == {"NotFound"}
ErrKeyNotFound == {"ErrKeyNotFound"}
\* errors.Is(err, target)
Is(err, target) == target # {} /\ target \subseteq err
\* errors.Join(NotFound, parentError)
NewNotFound(parentError) == NotFound \cup parentError
\* mapError of the badger provider
mapError(err) == IF Is(err, ErrKeyNotFound) THEN NewNotFound(err) ELSE err


\* ---------------------------------------------------------- keys and values
KeyTypes == {"string", "uint64"}

\* The pool of keys of type string: "k1", "10", "k3", "20", ...
StrKeyAt(i) == IF i % 2 = 1 THEN <<"k">> \o FormatUint(i) ELSE FormatUint(5 * i)

\* The pool of keys of type uint64: 7, 10, 13, ... ("10" < "13" < "7" as text)
UintKeyAt(i) == 3 * i + 4

KeyAt(kt, i) == IF kt = "string" THEN StrKeyAt(i) ELSE UintKeyAt(i)

\* The providers never look into a value: two of them tell an overwrite
\* from the value it replaces.
Values == {"v1", "v2"}

\* var v V
ZeroV == ""

EmptyMap == [x \in {} |-> x]

MapSet(m, k, v) == [x \in (DOMAIN m) \cup {k} |-> IF x = k THEN v ELSE m[x]]

MapDelete(m, k) == [x \in (DOMAIN m) \ {k} |-> m[x]]

\* Sequences over S of length at most n
SeqsUpTo(S, n) == UNION {[1..m -> S] : m \in 0..n}

\* The orders in which a finite set can be enumerated
Perms(S) == {p \in [1..Cardinality(S) -> S] : \A i, j \in DOMAIN p : p[i] = p[j] => i = j}

\* ------------------------------------------------- badger provider: codecs
\* keyToByte: string keys are their raw bytes, uint64 keys decimal ASCII.
keyToByte(kt, k) ==
    IF kt = "string" THEN [err |-> Nil, b |-> k]
    ELSE [err |-> Nil, b |-> FormatUint(k)]

\* byteToKey: string(b), or strconv.ParseUint(string(b), 10, 64).
byteToKey(kt, b) ==
    IF kt = "string" THEN [err |-> Nil, k |-> b]
    ELSE IF ParseUint(b).ok THEN [err |-> Nil, k |-> ParseUint(b).n]
    ELSE [err |-> {"failed to convert bytes to uint64"}, k |-> 0]

\* encodeToBytes: the gob stream of a value.
encodeToBytes(v) == [err |-> Nil, b |-> <<"gob", v>>]

\* decodeFromBytes: gob decoding; bytes that are no gob stream (the raw
\* bytes of a key, which is what a reference holds) are a decoding error.
decodeFromBytes(b) ==
    IF Len(b) = 2 /\ b[1] = "gob" THEN [err |-> Nil, v |-> b[2]]
    ELSE [err |-> {"gob: decode"}, v |-> ZeroV]

\* --------------------------------------------- file provider: serialization
\* strings.ToLower(filepath.Ext(cfg.Path)); a path is <<>> or <<base, ext>>.
Ext(path) == IF path = <<>> THEN "" ELSE path[2]

\* The switch of New on the extension; "" is "unsupported file format".
TypeOfExt(e) ==
    IF e \in {".yaml", ".yml"} THEN "yaml" ELSE IF e = ".json" THEN "json" ELSE ""

\* Keys in the persisted layout are text: decimal for uint64 keys.
KeyText(kt, k) == IF kt = "string" THEN k ELSE FormatUint(k)

TextKey(kt, t) ==
    IF kt = "string" THEN [ok |-> TRUE, k |-> t]
    ELSE [ok |-> ParseUint(t).ok, k |-> ParseUint(t).n]

\* A text (inline content or file content): some bytes in a syntax, holding
\* the top-level object; the empty text holds nothing.
EmptyText == [format |-> "", body |-> EmptyMap]

EncodeValue(v) == <<"enc", v>>

DecodeValue(e) == e[2]

\* The "data" mapping of the layout, keys as text.
EncodeDataMap(kt, m) ==
    [t \in {KeyText(kt, k) : k \in DOMAIN m} |->
        EncodeValue(m[CHOOSE k \in DOMAIN m : KeyText(kt, k) = t])]

\* The "references" mapping of the layout, keys and targets as text.
EncodeReferences(kt, m) ==
    [t \in {KeyText(kt, k) : k \in DOMAIN m} |->
        KeyText(kt, m[CHOOSE k \in DOMAIN m : KeyText(kt, k) = t])]

\* Mutant of Marshal: the references field is left out of the layout.
MarshalWithoutReferences(kt, t, d) ==
    [format |-> t,
     body |-> [f \in (IF DOMAIN d.DataMap = {} THEN {} ELSE {"data"}) |->
                 EncodeDataMap(kt, d.DataMap)]]

\* yaml.Marshal(d) / json.MarshalIndent(d, "", "  ") of the data struct:
\* both fields are omitempty.
Marshal(kt, t, d) ==
    LET fields == (IF DOMAIN d.DataMap = {} THEN {} ELSE {"data"})
                  \cup (IF DOMAIN d.References = {} THEN {} ELSE {"references"})
    IN [format |-> t,
        body |-> [f \in fields |->
                    IF f = "data" THEN EncodeDataMap(kt, d.DataMap)
                    ELSE EncodeReferences(kt, d.References)]]

\* Does a parser of syntax t accept the text?  The empty text is an empty
\* YAML document and no JSON value; "{}" is both; JSON is read by the YAML
\* parser; a YAML block document is no JSON.
Parses(t, text) ==
    IF text = EmptyText THEN t = "yaml"
    ELSE text.format = t \/ t = "yaml" \/ DOMAIN text.body = {}

\* The decoded "data" mapping merged into the existing map (Unmarshal
\* reuses a non-nil map and keeps its entries).
MergeDataMap(kt, m, e) ==
    [k \in (DOMAIN m) \cup {TextKey(kt, t).k : t \in DOMAIN e} |->
        IF \E t \in DOMAIN e : TextKey(kt, t).k = k
        THEN DecodeValue(e[CHOOSE t \in DOMAIN e : TextKey(kt, t).k = k])
        ELSE m[k]]

\* The decoded "references" mapping merged into the existing map.
MergeReferences(kt, m, e) ==
    [k \in (DOMAIN m) \cup {TextKey(kt, t).k : t \in DOMAIN e} |->
        IF \E t \in DOMAIN e : TextKey(kt, t).k = k
        THEN TextKey(kt, e[CHOOSE t \in DOMAIN e : TextKey(kt, t).k = k]).k
        ELSE m[k]]

\* yaml.Unmarshal / json.Unmarshal of a text into &p.data.
Unmarshal(kt, t, text, d) ==
    LET has(f) == f \in DOMAIN text.body
        keysOk(f) == has(f) => \A x \in DOMAIN text.body[f] : TextKey(kt, x).ok
        refsOk == has("references") =>
                     \A x \in DOMAIN text.body["references"] :
                         TextKey(kt, text.body["references"][x]).ok
    IN IF ~Parses(t, text) \/ ~keysOk("data") \/ ~keysOk("references") \/ ~refsOk
       THEN [err |-> {"unmarshal"}, data |-> d]
       ELSE [err |-> Nil,
             data |-> [DataMap |-> IF has("data")
                                   THEN MergeDataMap(kt, d.DataMap, text.body["data"])
                                   ELSE d.DataMap,
                       References |-> IF has("references")
                                      THEN MergeReferences(kt, d.References,
                                                           text.body["references"])
                                      ELSE d.References]]


\* ------------------------------------------------------------------- state
VARIABLES
    keyValueConfig, \* KeyValueConfig: which of Badger and File has a value
    backend,    \* "file" or "badger": what the selector instantiated, or ""
    keyType,    \* the key domain K of the instance
    cfg,        \* file.Config {Path, Content} or badger.Config {InMemory}
    fileType,   \* file provider: p.fileType
    data,       \* file provider: p.data, the DataMap and References maps
    disk,       \* file provider: the file at cfg.Path
    db,         \* badger provider: the engine's keyspace, bytes -> bytes
    up,         \* the instance is between construction and Shutdown
    call,       \* the last call made on the instance
    ret,        \* what it returned
    th,         \* concurrent callers: the call each goroutine is in
    mu,         \* file provider: p.mu, its writer and its readers
    coexisted   \* history: TornPair was stored at one instant

vars ==
    <<keyValueConfig, backend, keyType, cfg, fileType, data, disk, db, up, call, ret,
      th, mu, coexisted>>

conc == <<th, mu, coexisted>>

config == <<keyValueConfig, backend, keyType, cfg, fileType>>

Ret(err, val, vals, visited) ==
    [err |-> err, val |-> val, vals |-> vals, visited |-> visited]

RetErr(err) == Ret(err, ZeroV, <<>>, <<>>)

NoFile == [exists |-> FALSE, text |-> EmptyText, writable |-> TRUE]

FileOf(text) == [exists |-> TRUE, text |-> text, writable |-> TRUE]

\* A file whose permissions let the process read it and not write it.
ReadOnly(text) == [exists |-> TRUE, text |-> text, writable |-> FALSE]

EmptyData == [DataMap |-> EmptyMap, References |-> EmptyMap]

\* The keys the callers use.
Pool == {KeyAt(keyType, i) : i \in 1..NumKeys}

\* The engine keeps entries and aliases in one keyspace, so an alias of an
\* alias of a stored entry takes three keys there: its callers are also
\* run with one key more.
EnginePool == {KeyAt(keyType, i) : i \in 1..(NumKeys + 1)}

\* ------------------------------------------------------------ file provider
\* os.WriteFile(p.cfg.Path, data, 0644): there is no file to open at "".
WriteFile(path, text, dsk) ==
    IF path = <<>> THEN [err |-> {"open: no such file or directory"}, disk |-> dsk]
    ELSE IF ~dsk.writable THEN [err |-> {"open: permission denied"}, disk |-> dsk]
    ELSE [err |-> Nil, disk |-> FileOf(text)]

\* saveToFile: K is never int, so d = p.data; marshal by fileType; write.
saveToFile(d, dsk) ==
    IF fileType \notin {"yaml", "json"}
    THEN [err |-> {"unsupported file format"}, disk |-> dsk]
    ELSE WriteFile(cfg.Path, Marshal(keyType, fileType, d), dsk)

\* Setup of the file provider, on the instance (c, ft, d) and the file dsk.
fileSetup(kt, c, ft, d, dsk) ==
    IF c.Content # EmptyText THEN [err |-> Nil, data |-> d, disk |-> dsk]
    ELSE IF ~dsk.exists
    THEN LET w == WriteFile(c.Path, EmptyText, dsk)
         IN [err |-> w.err, data |-> d, disk |-> w.disk]
    ELSE IF ft \notin {"yaml", "json"}
    THEN [err |-> {"unsupported file format"}, data |-> d, disk |-> dsk]
    ELSE LET u == Unmarshal(kt, ft, dsk.text, d)
         IN [err |-> u.err, data |-> u.data, disk |-> dsk]

\* New of the file provider: empty maps, the format from the inline content
\* (JSON first, then YAML) or from the extension, then Setup.
fileNew(kt, c, dsk) ==
    LET j == Unmarshal(kt, "json", c.Content, EmptyData)
        y == Unmarshal(kt, "yaml", c.Content, EmptyData)
        ft == IF c.Content # EmptyText
              THEN (IF j.err = Nil THEN "json" ELSE IF y.err = Nil THEN "yaml" ELSE "")
              ELSE TypeOfExt(Ext(c.Path))
        d == IF c.Content # EmptyText
             THEN (IF j.err = Nil THEN j.data ELSE y.data)
             ELSE EmptyData
        s == fileSetup(kt, c, ft, d, dsk)
    IN IF c.Content # EmptyText /\ j.err # Nil /\ y.err # Nil
       THEN [err |-> y.err, fileType |-> ft, data |-> d, disk |-> dsk]
       ELSE IF c.Content = EmptyText /\ ft = ""
       THEN [err |-> {"unsupported file format"}, fileType |-> ft, data |-> d, disk |-> dsk]
       ELSE [err |-> s.err, fileType |-> ft, data |-> s.data, disk |-> s.disk]

fileStore(key, value) ==
    LET d == [data EXCEPT !.DataMap = MapSet(@, key, value)]
        s == saveToFile(d, disk)
    IN [data |-> d, disk |-> s.disk, ret |-> RetErr(s.err)]

fileGet(key) ==
    IF key \notin DOMAIN data.DataMap THEN RetErr(NotFound)
    ELSE Ret(Nil, data.DataMap[key], <<>>, <<>>)

fileRemove(key) ==
    IF key \notin DOMAIN data.DataMap
    THEN [data |-> data, disk |-> disk, ret |-> RetErr(NotFound)]
    ELSE LET d == [data EXCEPT !.DataMap = MapDelete(@, key)]
             s == saveToFile(d, disk)
         IN [data |-> d, disk |-> s.disk, ret |-> RetErr(s.err)]

\* The range loop of ForEach over the map in the order the runtime picks,
\* fn(k, v) being "k is not in stop".
RECURSIVE fileLoop(_, _, _)
fileLoop(order, stop, visited) ==
    IF order = <<>> THEN visited
    ELSE LET k == Head(order)
             seen == Append(visited, <<k, data.DataMap[k]>>)
         IN IF k \in stop THEN seen ELSE fileLoop(Tail(order), stop, seen)

fileForEach(order, stop) == Ret(Nil, ZeroV, <<>>, fileLoop(order, stop, <<>>))

fileStoreReference(reference, key) ==
    LET d == [data EXCEPT !.References = MapSet(@, reference, key)]
        s == saveToFile(d, disk)
    IN [data |-> d, disk |-> s.disk, ret |-> RetErr(s.err)]

fileRemoveReferenceWithEntry(reference) ==
    IF reference \notin DOMAIN data.References
    THEN [data |-> data, disk |-> disk, ret |-> RetErr(NotFound)]
    ELSE LET d == [data EXCEPT !.References = MapDelete(@, reference),
                               !.DataMap = MapDelete(@, reference)]
             s == saveToFile(d, disk)
         IN [data |-> d, disk |-> s.disk, ret |-> RetErr(s.err)]

fileRemoveReference(reference) ==
    IF reference \notin DOMAIN data.References
    THEN [data |-> data, disk |-> disk, ret |-> RetErr(NotFound)]
    ELSE LET d == [data EXCEPT !.References = MapDelete(@, reference)]
             s == saveToFile(d, disk)
         IN [data |-> d, disk |-> s.disk, ret |-> RetErr(s.err)]

fileGetByReference(reference) ==
    IF reference \notin DOMAIN data.References THEN RetErr(NotFound)
    ELSE IF data.References[reference] \notin DOMAIN data.DataMap THEN RetErr(NotFound)
    ELSE Ret(Nil, data.DataMap[data.References[reference]], <<>>, <<>>)

fileShutdown == saveToFile(data, disk)


\* ---------------------------------------------------------- badger provider
\* txn.Get(k): the item under k, or badger.ErrKeyNotFound.
txnGet(store, k) ==
    IF k \in DOMAIN store THEN [err |-> Nil, val |-> store[k]]
    ELSE [err |-> ErrKeyNotFound, val |-> <<>>]

\* txn.Set(k, v) committed by db.Update.
txnSet(store, k, v) == [err |-> Nil, db |-> MapSet(store, k, v)]

\* txn.Delete(k) committed by db.Update: the engine writes a delete marker
\* and reports nothing when the key is not there.
txnDelete(store, k) == [err |-> Nil, db |-> MapDelete(store, k)]

badgerStore(key, value) ==
    LET k == keyToByte(keyType, key)
        v == encodeToBytes(value)
        u == txnSet(db, k.b, v.b)
    IN IF k.err # Nil THEN [db |-> db, ret |-> RetErr(k.err)]
       ELSE IF v.err # Nil THEN [db |-> db, ret |-> RetErr(v.err)]
       ELSE [db |-> u.db, ret |-> RetErr(mapError(u.err))]

\* Get on a keyspace (GetByReference calls it after its own view).
badgerGetIn(store, key) ==
    LET k == keyToByte(keyType, key)
        item == txnGet(store, k.b)
        dec == decodeFromBytes(item.val)
    IN IF k.err # Nil THEN RetErr(k.err)
       ELSE IF item.err # Nil THEN RetErr(mapError(item.err))
       ELSE Ret(mapError(dec.err), dec.v, <<>>, <<>>)

badgerGet(key) == badgerGetIn(db, key)

badgerRemove(key) ==
    LET k == keyToByte(keyType, key)
        u == txnDelete(db, k.b)
    IN IF k.err # Nil THEN [db |-> db, ret |-> RetErr(k.err)]
       ELSE [db |-> u.db, ret |-> RetErr(mapError(u.err))]

\* it.Rewind(); it.Valid(); it.Next(): the keys in byte order.
IterOrder(store) ==
    CHOOSE p \in Perms(DOMAIN store) :
        \A i, j \in DOMAIN p : i < j => BytesLess(p[i], p[j])

\* The loop of ForEach over the iterator, fn(k, v) being "k is not in
\* stop": a key or a value that does not decode ends the scan with its
\* error, a visitor answering false ends it with nil.
\* Mutant of badgerLoop: the stop sentinel is returned like any other error.
RECURSIVE badgerLoopSurfacesStop(_, _, _)
badgerLoopSurfacesStop(order, stop, visited) ==
    IF order = <<>> THEN Ret(Nil, ZeroV, <<>>, visited)
    ELSE LET key == byteToKey(keyType, Head(order))
             dec == decodeFromBytes(db[Head(order)])
             seen == Append(visited, <<key.k, dec.v>>)
         IN IF key.err # Nil THEN Ret(key.err, ZeroV, <<>>, visited)
            ELSE IF dec.err # Nil THEN Ret(dec.err, ZeroV, <<>>, visited)
            ELSE IF key.k \in stop THEN Ret({"stop iteration"}, ZeroV, <<>>, seen)
            ELSE badgerLoopSurfacesStop(Tail(order), stop, seen)

RECURSIVE badgerLoop(_, _, _)
badgerLoop(order, stop, visited) ==
    IF order = <<>> THEN Ret(Nil, ZeroV, <<>>, visited)
    ELSE LET key == byteToKey(keyType, Head(order))
             dec == decodeFromBytes(db[Head(order)])
             seen == Append(visited, <<key.k, dec.v>>)
         IN IF key.err # Nil THEN Ret(key.err, ZeroV, <<>>, visited)
            ELSE IF dec.err # Nil THEN Ret(dec.err, ZeroV, <<>>, visited)
            ELSE IF key.k \in stop THEN Ret(Nil, ZeroV, <<>>, seen)
            ELSE badgerLoop(Tail(order), stop, seen)

badgerForEach(stop) ==
    LET r == badgerLoop(IterOrder(db), stop, <<>>)
    IN [r EXCEPT !.err = mapError(@)]

badgerStoreReferenceGuarded(reference, key) ==
    LET r == keyToByte(keyType, reference)
        k == keyToByte(keyType, key)
        u == txnSet(db, r.b, k.b)
    IN IF r.err # Nil THEN [db |-> db, ret |-> RetErr(r.err)]
       ELSE IF k.err # Nil THEN [db |-> db, ret |-> RetErr(k.err)]
       ELSE IF r.b \in DOMAIN db /\ decodeFromBytes(db[r.b]).err = Nil
       THEN [db |-> db, ret |-> RetErr({"alias is a data key"})]
       ELSE [db |-> u.db, ret |-> RetErr(mapError(u.err))]

badgerStoreReference(reference, key) ==
    LET r == keyToByte(keyType, reference)
        k == keyToByte(keyType, key)
        u == txnSet(db, r.b, k.b)
    IN IF r.err # Nil THEN [db |-> db, ret |-> RetErr(r.err)]
       ELSE IF k.err # Nil THEN [db |-> db, ret |-> RetErr(k.err)]
       ELSE [db |-> u.db, ret |-> RetErr(mapError(u.err))]

badgerRemoveReference(reference) ==
    LET r == keyToByte(keyType, reference)
        u == txnDelete(db, r.b)
    IN IF r.err # Nil THEN [db |-> db, ret |-> RetErr(r.err)]
       ELSE [db |-> u.db, ret |-> RetErr(mapError(u.err))]

badgerGetByReference(reference) ==
    LET r == keyToByte(keyType, reference)
        item == txnGet(db, r.b)
        key == byteToKey(keyType, item.val)
    IN IF r.err # Nil THEN RetErr(r.err)
       ELSE IF item.err # Nil THEN RetErr(mapError(item.err))
       ELSE IF key.err # Nil THEN RetErr(mapError(key.err))
       ELSE badgerGetIn(db, key.k)

\* Setup on an instance that holds an open engine: badger.Open creates a
\* new empty in-memory engine, which replaces p.db, and fails on the lock
\* of a directory that the open engine holds.
badgerSetup ==
    IF cfg.InMemory THEN [err |-> Nil, db |-> EmptyMap]
    ELSE [err |-> {"Cannot acquire directory lock"}, db |-> db]

\* ------------------------------------------------------- what a call returns
\* Get, GetByReference and ForEach change nothing: their results are
\* functions of the state.
GetOf(key) == IF backend = "file" THEN fileGet(key) ELSE badgerGet(key)

GetByReferenceOf(reference) ==
    IF backend = "file" THEN fileGetByReference(reference)
    ELSE badgerGetByReference(reference)

\* GetMultiple of both providers: one Get per key, in order; the first
\* error ends the call with []V{}.
RECURSIVE getLoop(_, _)
getLoop(keys, values) ==
    IF keys = <<>> THEN Ret(Nil, ZeroV, values, <<>>)
    ELSE LET g == GetOf(Head(keys))
         IN IF g.err # Nil THEN Ret(g.err, ZeroV, <<>>, <<>>)
            ELSE getLoop(Tail(keys), Append(values, g.val))

GetMultipleOf(keys) == getLoop(keys, <<>>)


\* k is a stored entry: Get(k) returns a value.
Present(k) == GetOf(k).err = Nil

\* r is a stored alias: StoreReference wrote it and nothing replaced it.
IsAlias(r) ==
    IF backend = "file" THEN r \in DOMAIN data.References
    ELSE /\ keyToByte(keyType, r).b \in DOMAIN db
         /\ decodeFromBytes(db[keyToByte(keyType, r).b]).err # Nil

\* What is stored under a key when a call is made with it.
Was(key) == [entry |-> Present(key), alias |-> IsAlias(key)]

NoKey == [entry |-> FALSE, alias |-> FALSE]

\* ------------------------------------------------------ concurrent callers
Threads == 1..NumThreads

\* A goroutine that is in no call.
IdleThread ==
    [pc |-> "idle", op |-> "", args |-> <<>>, vals |-> <<>>, err |-> Nil]

\* p.mu with no holder: w is the goroutine holding the exclusive lock
\* (0: none), r the goroutines holding the shared lock.
Unlocked == [w |-> 0, r |-> {}]

\* One caller at a time: no goroutine is ever inside a call of another.
Sequential ==
    /\ th = [t \in Threads |-> IdleThread]
    /\ mu = Unlocked
    /\ coexisted = FALSE

\* The caller is between two calls.
Idle == [op |-> "idle", args |-> <<>>, was |-> NoKey]

\* A call, the arguments it was made with and what its first key held.
Call(op, args, was) == [op |-> op, args |-> args, was |-> was]

\* ------------------------------------------------------------ construction
\* What a file or an inline content may hold before the instance exists.
SeedData(kt) ==
    [DataMap |-> MapSet(EmptyMap, KeyAt(kt, 1), "v1"),
     References |-> MapSet(EmptyMap, KeyAt(kt, 2), KeyAt(kt, 1))]

Paths == {<<"db", ".yaml">>, <<"db", ".json">>}

\* file.Config values, each with the file found at Path: a path of either
\* format with no file, an empty file or a file holding data; inline YAML
\* content with no path; inline JSON content with a path.
FileSetups(kt) ==
    UNION {{[cfg |-> [Path |-> p, Content |-> EmptyText], disk |-> d] :
               d \in {NoFile, FileOf(EmptyText),
                      FileOf(Marshal(kt, TypeOfExt(Ext(p)), SeedData(kt)))}} :
           p \in Paths}
    \cup
    {[cfg |-> [Path |-> <<>>, Content |-> Marshal(kt, "yaml", SeedData(kt))],
      disk |-> NoFile],
     [cfg |-> [Path |-> <<"db", ".yaml">>, Content |-> Marshal(kt, "json", SeedData(kt))],
      disk |-> NoFile]}

NotConfigured == {"storage provider is not configured"}

GetKeyValueProviderFromConfigFileFirst(c) ==
    IF c.File THEN [err |-> Nil, backend |-> "file"]
    ELSE IF c.Badger THEN [err |-> Nil, backend |-> "badger"]
    ELSE [err |-> NotConfigured, backend |-> ""]

\* The selector: the backend whose New it calls, or its error.
GetKeyValueProviderFromConfig(c) ==
    IF c.Badger THEN [err |-> Nil, backend |-> "badger"]
    ELSE IF c.File THEN [err |-> Nil, backend |-> "file"]
    ELSE [err |-> NotConfigured, backend |-> ""]

\* The file provider that New returns on the setup s.
FileInstance(s) ==
    LET n == fileNew(keyType, s.cfg, s.disk)
    IN /\ n.err = Nil
       /\ cfg = s.cfg
       /\ fileType = n.fileType
       /\ data = n.data
       /\ disk = n.disk

\* The state once the selector has returned: a provider, or its error and
\* no provider. Configurations on which New fails are left out.
Init ==
    /\ keyValueConfig \in [Badger : BOOLEAN, File : BOOLEAN]
    /\ backend = GetKeyValueProviderFromConfig(keyValueConfig).backend
    /\ keyType \in KeyTypes
    /\ up = (backend # "")
    /\ call = Idle
    /\ ret = RetErr(GetKeyValueProviderFromConfig(keyValueConfig).err)
    /\ Sequential
    /\ IF backend = "file"
       THEN /\ db = EmptyMap
            /\ \E s \in FileSetups(keyType) : FileInstance(s)
       ELSE /\ cfg \in (IF backend = "badger" THEN [InMemory : BOOLEAN]
                                              ELSE {[InMemory |-> FALSE]})
            /\ db = EmptyMap
            /\ fileType = ""
            /\ data = EmptyData
            /\ disk = NoFile

\* ----------------------------------------------------------------- actions
FileStep(r) == data' = r.data /\ disk' = r.disk /\ ret' = r.ret /\ UNCHANGED db

BadgerStep(r) == db' = r.db /\ ret' = r.ret /\ UNCHANGED <<data, disk>>

ReadStep(r) == ret' = r /\ UNCHANGED <<data, disk, db>>

Store(key, value) ==
    /\ up /\ call = Idle
    /\ call' = Call("Store", <<key, value>>, Was(key))
    /\ IF backend = "file" THEN FileStep(fileStore(key, value))
       ELSE BadgerStep(badgerStore(key, value))
    /\ UNCHANGED <<config, conc, up>>

Get(key) ==
    /\ up /\ call = Idle
    /\ call' = Call("Get", <<key>>, NoKey)
    /\ ReadStep(GetOf(key))
    /\ UNCHANGED <<config, conc, up>>

GetMultiple(keys) ==
    /\ up /\ call = Idle
    /\ call' = Call("GetMultiple", <<keys>>, NoKey)
    /\ ReadStep(GetMultipleOf(keys))
    /\ UNCHANGED <<config, conc, up>>

Remove(key) ==
    /\ up /\ call = Idle
    /\ call' = Call("Remove", <<key>>, Was(key))
    /\ IF backend = "file" THEN FileStep(fileRemove(key))
       ELSE BadgerStep(badgerRemove(key))
    /\ UNCHANGED <<config, conc, up>>

\* The visitor answers false exactly on the keys of stop.
ForEach(stop) ==
    /\ up /\ call = Idle
    /\ call' = Call("ForEach", <<stop>>, NoKey)
    /\ IF backend = "file"
       THEN \E order \in Perms(DOMAIN data.DataMap) : ReadStep(fileForEach(order, stop))
       ELSE ReadStep(badgerForEach(stop))
    /\ UNCHANGED <<config, conc, up>>

StoreReference(reference, key) ==
    /\ up /\ call = Idle
    /\ call' = Call("StoreReference", <<reference, key>>, Was(reference))
    /\ IF backend = "file" THEN FileStep(fileStoreReference(reference, key))
       ELSE BadgerStep(badgerStoreReference(reference, key))
    /\ UNCHANGED <<config, conc, up>>

RemoveReference(reference) ==
    /\ up /\ call = Idle
    /\ call' = Call("RemoveReference", <<reference>>, Was(reference))
    /\ IF backend = "file" THEN FileStep(fileRemoveReference(reference))
       ELSE BadgerStep(badgerRemoveReference(reference))
    /\ UNCHANGED <<config, conc, up>>

GetByReference(reference) ==
    /\ up /\ call = Idle
    /\ call' = Call("GetByReference", <<reference>>, NoKey)
    /\ ReadStep(GetByReferenceOf(reference))
    /\ UNCHANGED <<config, conc, up>>

\* Setup called on the instance the constructor returned.
Setup ==
    /\ up /\ call = Idle
    /\ call' = Call("Setup", <<>>, NoKey)
    /\ IF backend = "file"
       THEN LET s == fileSetup(keyType, cfg, fileType, data, disk)
            IN /\ data' = s.data
               /\ disk' = s.disk
               /\ ret' = RetErr(s.err)
               /\ UNCHANGED db
       ELSE /\ db' = badgerSetup.db
            /\ ret' = RetErr(badgerSetup.err)
            /\ UNCHANGED <<data, disk>>
    /\ UNCHANGED <<config, conc, up>>

\* Shutdown: the final flush of the file provider, db.Close() of the engine.
Shutdown ==
    /\ up /\ call = Idle
    /\ up' = FALSE
    /\ call' = Call("Shutdown", <<>>, NoKey)
    /\ IF backend = "file"
       THEN /\ disk' = fileShutdown.disk
            /\ ret' = RetErr(fileShutdown.err)
            /\ UNCHANGED <<data, db>>
       ELSE /\ ret' = RetErr(Nil)
            /\ UNCHANGED <<data, disk, db>>
    /\ UNCHANGED <<config, conc>>

\* A new provider constructed from the same configuration after Shutdown:
\* the file provider starts from empty maps and what Setup reads, an
\* in-memory engine starts empty and a directory engine finds its keyspace.
Reopen ==
    /\ ~up /\ call = Idle
    /\ call' = Call("New", <<>>, NoKey)
    /\ IF backend = ""
       THEN /\ ret' = RetErr(GetKeyValueProviderFromConfig(keyValueConfig).err)
            /\ UNCHANGED <<up, fileType, data, disk, db>>
       ELSE IF backend = "file"
       THEN LET n == fileNew(keyType, cfg, disk)
            IN /\ ret' = RetErr(n.err)
               /\ up' = (n.err = Nil)
               /\ fileType' = (IF n.err = Nil THEN n.fileType ELSE fileType)
               /\ data' = (IF n.err = Nil THEN n.data ELSE data)
               /\ disk' = n.disk
               /\ UNCHANGED db
       ELSE /\ ret' = RetErr(Nil)
            /\ up' = TRUE
            /\ db' = (IF cfg.InMemory THEN EmptyMap ELSE db)
            /\ UNCHANGED <<fileType, data, disk>>
    /\ UNCHANGED <<keyValueConfig, backend, keyType, cfg, conc>>

\* The call returns to its caller, which may then make the next one.
Return ==
    /\ call # Idle
    /\ call' = Idle
    /\ ret' = RetErr(Nil)
    /\ UNCHANGED <<config, conc, data, disk, db, up>>

\* The visitors ForEach is given: one that always answers true, and one
\* for each key that answers false on it.
Visitors(K) == {{}} \cup {{k} : k \in K}

Next ==
    \/ \E k \in Pool, v \in Values : Store(k, v)
    \/ \E k \in Pool : Get(k)
    \/ \E ks \in SeqsUpTo(Pool, MaxKeys) : GetMultiple(ks)
    \/ \E k \in Pool : Remove(k)
    \/ \E stop \in Visitors(Pool) : ForEach(stop)
    \/ \E r \in Pool, k \in Pool : StoreReference(r, k)
    \/ \E r \in Pool : RemoveReference(r)
    \/ \E r \in Pool : GetByReference(r)
    \/ Setup
    \/ Shutdown
    \/ Reopen
    \/ Return

Spec == Init /\ [][Next]_vars

\* The instances of one backend only.
InitBadger == Init /\ backend = "badger" /\ ~keyValueConfig.File

\* The same calls made with the keys of EnginePool.
NextEngine ==
    \/ \E k \in EnginePool, v \in Values : Store(k, v)
    \/ \E k \in EnginePool : Get(k)
    \/ \E ks \in SeqsUpTo(EnginePool, MaxKeys) : GetMultiple(ks)
    \/ \E k \in EnginePool : Remove(k)
    \/ \E stop \in Visitors(EnginePool) : ForEach(stop)
    \/ \E r \in EnginePool, k \in EnginePool : StoreReference(r, k)
    \/ \E r \in EnginePool : RemoveReference(r)
    \/ \E r \in EnginePool : GetByReference(r)
    \/ Setup
    \/ Shutdown
    \/ Reopen
    \/ Return

SpecBadger == InitBadger /\ [][NextEngine]_vars

InitFile == Init /\ backend = "file"

SpecFile == InitFile /\ [][Next]_vars

\* A path whose file holds data and cannot be written by the process.
ReadOnlySetups(kt) ==
    {[cfg |-> [Path |-> p, Content |-> EmptyText],
      disk |-> ReadOnly(Marshal(kt, TypeOfExt(Ext(p)), SeedData(kt)))] : p \in Paths}

\* The file providers whose every flush fails.
InitReadOnly ==
    /\ keyValueConfig = [Badger |-> FALSE, File |-> TRUE]
    /\ backend = "file"
    /\ keyType \in KeyTypes
    /\ up = TRUE
    /\ call = Idle
    /\ ret = RetErr(Nil)
    /\ db = EmptyMap
    /\ Sequential
    /\ \E s \in ReadOnlySetups(keyType) : FileInstance(s)

SpecReadOnly == InitReadOnly /\ [][Next]_vars


\* ------------------------------------------------ concurrent specification
\* Goroutines call one provider at the same time. A call of the file
\* provider takes p.mu, changes the maps, flushes and releases p.mu in
\* steps of its own; a call of the engine provider is one transaction.
K1 == KeyAt(keyType, 1)

K2 == KeyAt(keyType, 2)

\* The calls the goroutines make.
ConcCalls ==
    {[op |-> "Store", args |-> <<k, v>>] : k \in {K1, K2}, v \in Values}
    \cup {[op |-> "Remove", args |-> <<K2>>],
          [op |-> "Get", args |-> <<K1>>],
          [op |-> "StoreReference", args |-> <<K2, K1>>],
          [op |-> "RemoveReference", args |-> <<K2>>],
          [op |-> "GetByReference", args |-> <<K2>>],
          [op |-> "GetMultiple", args |-> <<<<K1, K2>>>>],
          [op |-> "ForEach", args |-> <<>>],
          [op |-> "Setup", args |-> <<>>],
          [op |-> "Shutdown", args |-> <<>>]}

\* The lock a method of the file provider takes: p.mu.Lock() ("W"),
\* p.mu.RLock() ("R") or none: GetMultiple takes none itself, and Setup
\* returns before p.mu.Lock() on an instance with inline content.
LockOf(op) ==
    IF op \in {"Store", "Remove", "StoreReference", "RemoveReference", "Shutdown"}
    THEN "W"
    ELSE IF op = "Setup" THEN (IF cfg.Content # EmptyText THEN "" ELSE "W")
    ELSE IF op \in {"Get", "GetByReference", "ForEach"} THEN "R"
    ELSE ""

\* sync.RWMutex: Lock returns once no goroutine holds the lock.
CanLock == mu.w = 0 /\ mu.r = {}

CanRLockAnyTime == TRUE

\* sync.RWMutex: RLock returns once no goroutine holds the exclusive lock
\* nor waits in Lock.
CanRLock == mu.w = 0 /\ \A u \in Threads : th[u].pc # "wait"

ReleasedNever(t) == mu

\* What Unlock or RUnlock of goroutine t leaves.
Released(t) == [w |-> IF mu.w = t THEN 0 ELSE mu.w, r |-> mu.r \ {t}]

\* TornPair would be returned by a GetMultiple on the maps d or the
\* keyspace store.
TornPair == <<"v1", "v2">>

HoldsPair(d, store) ==
    IF backend = "file"
    THEN /\ {K1, K2} \subseteq DOMAIN d.DataMap
         /\ <<d.DataMap[K1], d.DataMap[K2]>> = TornPair
    ELSE /\ badgerGetIn(store, K1).err = Nil /\ badgerGetIn(store, K2).err = Nil
         /\ <<badgerGetIn(store, K1).val, badgerGetIn(store, K2).val>> = TornPair

\* What the sequential specifications keep.
seq == <<config, up, call, ret>>

\* The part of a locked method before its flush: the change of the maps,
\* and the error of a method that returns before it flushes.
Outcome(c) ==
    IF c.op = "Store" THEN fileStore(c.args[1], c.args[2])
    ELSE IF c.op = "Remove" THEN fileRemove(c.args[1])
    ELSE IF c.op = "StoreReference" THEN fileStoreReference(c.args[1], c.args[2])
    ELSE IF c.op = "RemoveReference" THEN fileRemoveReference(c.args[1])
    ELSE [data |-> data, disk |-> disk, ret |-> RetErr(Nil)]

\* GetMultiple after the Get g of its next key: the error ends the call.
AfterGet(c, g) ==
    IF g.err # Nil THEN [c EXCEPT !.pc = "done", !.vals = <<>>, !.err = g.err]
    ELSE IF Len(c.vals) + 1 = Len(c.args[1])
    THEN [c EXCEPT !.pc = "done", !.vals = Append(@, g.val)]
    ELSE [c EXCEPT !.pc = "between", !.vals = Append(@, g.val)]

InCall(c, pc) == [IdleThread EXCEPT !.pc = pc, !.op = c.op, !.args = c.args]

\* Goroutine t calls a method of the file provider that starts with
\* p.mu.Lock(), and waits in it. Which method it is, and with which
\* arguments, has no effect before the lock is held: Acquire draws it.
Lock(t) ==
    /\ backend = "file"
    /\ th[t].pc = "idle"
    /\ th' = [th EXCEPT ![t].pc = "wait"]
    /\ UNCHANGED <<seq, data, disk, db, mu, coexisted>>

\* p.mu.Lock() returns to the method c.
Acquire(t, c) ==
    /\ th[t].pc = "wait"
    /\ LockOf(c.op) = "W"
    /\ CanLock
    /\ mu' = [mu EXCEPT !.w = t]
    /\ th' = [th EXCEPT ![t] = InCall(c, "locked")]
    /\ UNCHANGED <<seq, data, disk, db, coexisted>>

\* Goroutine t calls a reading method of the file provider, whose
\* p.mu.RLock() returns, or GetMultiple, which starts its loop with no lock.
Enter(t, c) ==
    /\ backend = "file"
    /\ th[t].pc = "idle"
    /\ IF LockOf(c.op) = "R"
       THEN /\ CanRLock
            /\ th' = [th EXCEPT ![t] = InCall(c, "reading")]
            /\ mu' = [mu EXCEPT !.r = @ \cup {t}]
       ELSE /\ c.op = "GetMultiple"
            /\ th' = [th EXCEPT ![t] = InCall(c, "between")]
            /\ UNCHANGED mu
    /\ UNCHANGED <<seq, data, disk, db, coexisted>>

\* The holder of the exclusive lock changes the maps, or returns NotFound
\* and unlocks; Setup reads the file into the maps and unlocks.
Apply(t) ==
    /\ th[t].pc = "locked"
    /\ IF th[t].op = "Setup"
       THEN LET s == fileSetup(keyType, cfg, fileType, data, disk)
            IN /\ data' = s.data
               /\ disk' = s.disk
               /\ coexisted' = (coexisted \/ HoldsPair(s.data, db))
               /\ th' = [th EXCEPT ![t] = IdleThread]
               /\ mu' = Released(t)
       ELSE LET o == Outcome(th[t])
            IN /\ data' = o.data
               /\ coexisted' = (coexisted \/ HoldsPair(o.data, db))
               /\ UNCHANGED disk
               /\ IF Is(o.ret.err, NotFound)
                  THEN th' = [th EXCEPT ![t] = IdleThread] /\ mu' = Released(t)
                  ELSE th' = [th EXCEPT ![t].pc = "flush"] /\ UNCHANGED mu
    /\ UNCHANGED <<seq, db>>

\* saveToFile, then the deferred p.mu.Unlock().
Flush(t) ==
    /\ th[t].pc = "flush"
    /\ disk' = saveToFile(data, disk).disk
    /\ th' = [th EXCEPT ![t] = IdleThread]
    /\ mu' = Released(t)
    /\ UNCHANGED <<seq, data, db, coexisted>>

\* The holder of the shared lock reads the maps, then the deferred
\* p.mu.RUnlock(): Get, GetByReference and ForEach return, GetMultiple
\* goes on with its loop.
Read(t) ==
    /\ th[t].pc = "reading"
    /\ th' = [th EXCEPT ![t] =
                 IF th[t].op = "GetMultiple"
                 THEN AfterGet(th[t], fileGet(th[t].args[1][Len(th[t].vals) + 1]))
                 ELSE IdleThread]
    /\ mu' = Released(t)
    /\ UNCHANGED <<seq, data, disk, db, coexisted>>

\* GetMultiple calls Get with its next key: p.mu.RLock() of the file
\* provider, one View transaction of the engine provider.
Lookup(t) ==
    /\ th[t].pc = "between"
    /\ IF backend = "file"
       THEN /\ CanRLock
            /\ th' = [th EXCEPT ![t].pc = "reading"]
            /\ mu' = [mu EXCEPT !.r = @ \cup {t}]
       ELSE /\ th' = [th EXCEPT ![t] =
                         AfterGet(th[t], badgerGet(th[t].args[1][Len(th[t].vals) + 1]))]
            /\ UNCHANGED mu
    /\ UNCHANGED <<seq, data, disk, db, coexisted>>

\* GetMultiple returns.
Finish(t) ==
    /\ th[t].pc = "done"
    /\ th' = [th EXCEPT ![t] = IdleThread]
    /\ UNCHANGED <<seq, data, disk, db, mu, coexisted>>

\* Goroutine t calls a method of the engine provider: GetMultiple starts
\* its loop, a mutating method is one Update transaction.
EngineCall(t, c) ==
    /\ backend = "badger"
    /\ th[t].pc = "idle"
    /\ c.op \in {"Store", "Remove", "StoreReference", "RemoveReference", "GetMultiple"}
    /\ IF c.op = "GetMultiple"
       THEN /\ th' = [th EXCEPT ![t] = InCall(c, "between")]
            /\ UNCHANGED <<db, coexisted>>
       ELSE LET u == IF c.op = "Store" THEN badgerStore(c.args[1], c.args[2])
                     ELSE IF c.op = "Remove" THEN badgerRemove(c.args[1])
                     ELSE IF c.op = "StoreReference"
                     THEN badgerStoreReference(c.args[1], c.args[2])
                     ELSE badgerRemoveReference(c.args[1])
            IN /\ db' = u.db
               /\ coexisted' = (coexisted \/ HoldsPair(data, u.db))
               /\ UNCHANGED th
    /\ UNCHANGED <<seq, data, disk, mu>>

\* Instances called by several goroutines: a file provider on a path
\* with no file or with a file it cannot write, and an in-memory engine.
\* The locks and the transactions do not depend on the key type or on
\* the format of the file: the keys are strings and the file is YAML.
ConcSetups(kt) ==
    {[cfg |-> [Path |-> <<"db", ".yaml">>, Content |-> EmptyText], disk |-> NoFile],
     [cfg |-> [Path |-> <<"db", ".yaml">>, Content |-> EmptyText],
      disk |-> ReadOnly(Marshal(kt, "yaml", SeedData(kt)))]}

InitConc ==
    /\ keyValueConfig \in {[Badger |-> FALSE, File |-> TRUE],
                           [Badger |-> TRUE, File |-> FALSE]}
    /\ backend = GetKeyValueProviderFromConfig(keyValueConfig).backend
    /\ keyType = "string"
    /\ up = TRUE
    /\ call = Idle
    /\ ret = RetErr(Nil)
    /\ db = EmptyMap
    /\ Sequential
    /\ IF backend = "file"
       THEN \E s \in ConcSetups(keyType) : FileInstance(s)
       ELSE /\ cfg = [InMemory |-> TRUE]
            /\ fileType = ""
            /\ data = EmptyData
            /\ disk = NoFile

NextConc ==
    \E t \in Threads :
        \/ Lock(t)
        \/ \E c \in ConcCalls : Acquire(t, c)
        \/ \E c \in ConcCalls : Enter(t, c)
        \/ Apply(t)
        \/ Flush(t)
        \/ Read(t)
        \/ Lookup(t)
        \/ Finish(t)
        \/ \E c \in ConcCalls : EngineCall(t, c)

SpecConc == InitConc /\ [][NextConc]_vars

\* ------------------------------------------------- visitors that call back
\* ForEach calls fn under the shared lock, once per entry; vals records
\* the calls fn has made on the same provider so far, at most one per
\* entry. A method that starts with p.mu.Lock() waits as any writer does,
\* with the goroutine still among the readers.
VisitorCalls(t, c) ==
    /\ backend = "file"
    /\ th[t].pc = "reading" /\ th[t].op = "ForEach"
    /\ Len(th[t].vals) < Cardinality(DOMAIN data.DataMap)
    /\ c.op \in {"Store", "Remove", "StoreReference", "Get"}
    /\ th' = [th EXCEPT ![t].pc = IF LockOf(c.op) = "W" THEN "wait" ELSE "rwait",
                         ![t].vals = Append(@, c.op)]
    /\ UNCHANGED <<seq, data, disk, db, mu, coexisted>>

\* p.mu.RLock() of the Get that fn called returns: the goroutine holds the
\* shared lock twice.
NestedRLock(t) ==
    /\ th[t].pc = "rwait"
    /\ CanRLock
    /\ th' = [th EXCEPT ![t].pc = "nested"]
    /\ UNCHANGED <<seq, data, disk, db, mu, coexisted>>

\* The Get that fn called reads, releases its shared lock and returns to
\* fn, which returns to ForEach.
NestedReturn(t) ==
    /\ th[t].pc = "nested"
    /\ th' = [th EXCEPT ![t].pc = "reading"]
    /\ UNCHANGED <<seq, data, disk, db, mu, coexisted>>

\* p.mu.Lock() of goroutine t returns to some method.
AcquireAny(t) == \E c \in ConcCalls : Acquire(t, c)

\* The file providers of InitConc.
InitVisitor == InitConc /\ backend = "file"

NextVisitor ==
    \E t \in Threads :
        \/ Lock(t)
        \/ \E c \in ConcCalls : Acquire(t, c)
        \/ \E c \in ConcCalls : Enter(t, c)
        \/ Apply(t)
        \/ Flush(t)
        \/ Read(t)
        \/ Lookup(t)
        \/ Finish(t)
        \/ \E c \in ConcCalls : VisitorCalls(t, c)
        \/ NestedRLock(t)
        \/ NestedReturn(t)

\* The scheduler runs every goroutine that can take a step, and
\* sync.RWMutex lets no goroutine starve that could take the lock again
\* and again. No goroutine has to start a call.
Fairness ==
    \A t \in Threads :
        /\ SF_vars(AcquireAny(t))
        /\ WF_vars(Apply(t))
        /\ WF_vars(Flush(t))
        /\ WF_vars(Read(t))
        /\ SF_vars(Lookup(t))
        /\ WF_vars(Finish(t))
        /\ SF_vars(NestedRLock(t))
        /\ WF_vars(NestedReturn(t))

SpecVisitor == InitVisitor /\ [][NextVisitor]_vars /\ Fairness

\* ------------------------------------------------------ terms of the claims
\* The key a stored alias names.
AliasTarget(r) ==
    IF backend = "file" THEN data.References[r]
    ELSE byteToKey(keyType, db[keyToByte(keyType, r).b]).k

\* What RemoveReference(r) would return.
RemoveReferenceOf(r) ==
    IF backend = "file" THEN fileRemoveReference(r).ret
    ELSE badgerRemoveReference(r).ret

\* The stored entries, as Get returns them.
Entries == {<<k, GetOf(k).val>> : k \in {x \in Pool : Present(x)}}

\* What the instance stores.
store == <<data, disk, db>>

\* This step is a call of op.
Calls(op) == call = Idle /\ call'.op = op

Range(f) == {f[i] : i \in DOMAIN f}

\* ------------------------------------------------------------------ claims
\* C1: after Store(k, v) returns without error, Get(k) returns v with no
\* error; Store on a key that is already present returns no error; and no
\* call other than Store(k, .) and Remove(k) changes what Get(k) returns
\* for a stored k, so that Get(k) is the value of the most recent
\* Store(k, .) not followed by Remove(k).
C1_StoreThenGet ==
    [][\A k \in Pool :
          /\ (Calls("Store") /\ call'.args[1] = k /\ ret'.err = Nil)
                => GetOf(k)' = Ret(Nil, call'.args[2], <<>>, <<>>)
          /\ (Calls("Store") /\ call'.args[1] = k /\ Present(k))
                => ret'.err = Nil
          /\ (/\ call = Idle /\ up /\ up' /\ Present(k)
              /\ ~(call'.op \in {"Store", "Remove"} /\ call'.args[1] = k))
                => GetOf(k)' = GetOf(k)]_vars

\* C2: Remove(k) on a present key returns no error and Get(k) then fails
\* with NotFound; Remove(k) on a key that is no stored entry fails with
\* NotFound and changes nothing.
C2_Remove ==
    [][\A k \in Pool :
          (Calls("Remove") /\ call'.args[1] = k) =>
              IF Present(k)
              THEN ret'.err = Nil /\ Is(GetOf(k)'.err, NotFound)
              ELSE Is(ret'.err, NotFound) /\ store' = store]_vars

\* C3: a ForEach whose visitor always answers true returns no error and
\* visits each stored entry exactly once and nothing else.
C3_ForEachVisitsEntries ==
    (call.op = "ForEach" /\ call.args[1] = {}) =>
        /\ ret.err = Nil
        /\ Range(ret.visited) = Entries
        /\ Len(ret.visited) = Cardinality(Entries)


\* C4: when the visitor answers false on an entry, it is not called again
\* for any later entry and ForEach returns no error.
C4_ForEachStops ==
    (call.op = "ForEach") =>
        \A i \in DOMAIN ret.visited :
            ret.visited[i][1] \in call.args[1] =>
                i = Len(ret.visited) /\ ret.err = Nil

\* C4 witness: the engine backend's scan was cut short by the visitor, with
\* an entry left unvisited.
C4_Witness ==
    /\ backend = "badger"
    /\ call.op = "ForEach"
    /\ Len(ret.visited) = 1
    /\ ret.visited[1][1] \in call.args[1]
    /\ Cardinality(Entries) = 2
    /\ ret.err = Nil

\* C5: after StoreReference(ref, k) has succeeded, GetByReference(ref)
\* returns what Get(k) returns when k is a stored entry and fails with
\* NotFound when it is not; and GetByReference(ref) fails with NotFound
\* whenever ref is not a stored alias.
C5_GetByReference ==
    [][\A r \in Pool :
          /\ \A k \in Pool :
                (Calls("StoreReference") /\ call'.args = <<r, k>> /\ ret'.err = Nil) =>
                    IF Present(k)' THEN GetByReferenceOf(r)' = GetOf(k)'
                    ELSE Is(GetByReferenceOf(r)'.err, NotFound)
          /\ ~IsAlias(r)' => Is(GetByReferenceOf(r)'.err, NotFound)]_vars

\* C6: StoreReference on an existing alias returns no error; after it
\* GetByReference(ref) resolves to the value stored under the new target;
\* and no StoreReference changes a stored entry.
C6_StoreReferenceOverwrites ==
    [][\A r \in Pool, k2 \in Pool :
          (Calls("StoreReference") /\ call'.args = <<r, k2>>) =>
              /\ IsAlias(r) => ret'.err = Nil
              /\ (IsAlias(r) /\ Present(k2)) => GetByReferenceOf(r)' = GetOf(k2)
              /\ \A k \in Pool : Present(k) => GetOf(k)' = GetOf(k)]_vars

\* C7: RemoveReference(ref) on a stored alias returns no error and
\* GetByReference(ref) then fails with NotFound; on an alias that is not
\* stored it fails with NotFound; in neither case does a stored entry change.
C7_RemoveReference ==
    [][\A r \in Pool :
          (Calls("RemoveReference") /\ call'.args[1] = r) =>
              /\ IF IsAlias(r)
                 THEN ret'.err = Nil /\ Is(GetByReferenceOf(r)'.err, NotFound)
                 ELSE Is(ret'.err, NotFound)
              /\ \A k \in Pool : Present(k) => GetOf(k)' = GetOf(k)]_vars

\* C8: GetMultiple(keys) returns, when every key is a stored entry, the
\* values Get returns, in the order of the keys; when a key is absent it
\* fails with NotFound and returns the empty list.
C8_GetMultiple ==
    (call.op = "GetMultiple") =>
        LET keys == call.args[1]
        IN IF \A i \in DOMAIN keys : Present(keys[i])
           THEN /\ ret.err = Nil
                /\ Len(ret.vals) = Len(keys)
                /\ \A i \in DOMAIN keys : ret.vals[i] = GetOf(keys[i]).val
           ELSE Is(ret.err, NotFound) /\ ret.vals = <<>>


\* C9: snapshot backend on a path: a provider constructed on the same path
\* after Shutdown holds the entries and references the first one held.
C9_ReopenRestores ==
    [][(backend = "file" /\ cfg.Content = EmptyText /\ Calls("New")) =>
          ret'.err = Nil /\ up' /\ data' = data]_vars

\* C9 witness: a provider reopened on a JSON file of uint64 keys, with two
\* entries, a value stored by this run and a reference.
C9_Witness ==
    /\ backend = "file" /\ cfg.Content = EmptyText
    /\ call.op = "New" /\ ret.err = Nil /\ up
    /\ keyType = "uint64" /\ fileType = "json"
    /\ Cardinality(DOMAIN data.DataMap) = 2
    /\ \E k \in DOMAIN data.DataMap : data.DataMap[k] = "v2"
    /\ DOMAIN data.References # {}

\* C10: Remove(k) leaves every stored reference as it is, its target
\* included, so that an alias of k still exists (RemoveReference on it
\* succeeds) while GetByReference on it fails with NotFound; and a later
\* Store(k, v2) makes GetByReference on it return v2.
C10_RemoveKeepsReferences ==
    [][\A k \in Pool, r \in Pool :
          /\ (Calls("Remove") /\ call'.args[1] = k /\ IsAlias(r)) =>
                /\ IsAlias(r)' /\ AliasTarget(r)' = AliasTarget(r)
                /\ RemoveReferenceOf(r)'.err = Nil
                /\ (AliasTarget(r) = k /\ ret'.err = Nil)
                      => Is(GetByReferenceOf(r)'.err, NotFound)
          /\ (/\ Calls("Store") /\ call'.args[1] = k /\ ret'.err = Nil
              /\ IsAlias(r) /\ AliasTarget(r) = k) =>
                GetByReferenceOf(r)' = Ret(Nil, call'.args[2], <<>>, <<>>)]_vars

\* C11: on a file provider constructed from a non-empty inline content no
\* Store, Remove, StoreReference, RemoveReference or Shutdown writes to
\* disk, whatever the path; Store and StoreReference, and Remove and
\* RemoveReference of what is stored, return no error.
C11_InlineNeverWrites ==
    [][(/\ backend = "file" /\ cfg.Content # EmptyText /\ call = Idle
        /\ call'.op \in {"Store", "Remove", "StoreReference",
                         "RemoveReference", "Shutdown"}) =>
          /\ disk' = disk
          /\ call'.op \in {"Store", "StoreReference"} => ret'.err = Nil
          /\ (call'.op = "Remove" /\ call'.was.entry) => ret'.err = Nil
          /\ (call'.op = "RemoveReference" /\ call'.was.alias) => ret'.err = Nil]_vars

\* C12: Setup called again on a provider the constructor returned returns
\* no error and leaves the entries and the references as they are.
C12_SetupAgain ==
    [][Calls("Setup") =>
          /\ ret'.err = Nil
          /\ \A k \in Pool :
                /\ GetOf(k)' = GetOf(k)
                /\ IsAlias(k)' = IsAlias(k)
                /\ IsAlias(k) => AliasTarget(k)' = AliasTarget(k)]_vars

\* C13: the selector instantiates the engine backend whenever its
\* configuration is present, also next to a file configuration; the file
\* backend when only the file configuration is present; and with neither
\* it returns the configuration error and no provider.
C13_Selector ==
    /\ keyValueConfig.Badger => backend = "badger"
    /\ (~keyValueConfig.Badger /\ keyValueConfig.File) => backend = "file"
    /\ (~keyValueConfig.Badger /\ ~keyValueConfig.File) =>
          /\ backend = "" /\ ~up
          /\ call.op \in {"idle", "New"}
          /\ call.op = "New" => ret.err = NotConfigured

\* C13 witness: with both configurations present the selector has been
\* run again after a Shutdown and has returned the engine backend.
C13_Witness ==
    /\ keyValueConfig.Badger /\ keyValueConfig.File
    /\ call.op = "New" /\ ret.err = Nil /\ up
    /\ backend = "badger"

\* r1 is an alias of r2, r2 is an alias only (never a stored entry) and
\* names a stored entry.
AliasOfAlias(r1) ==
    /\ IsAlias(r1)
    /\ IsAlias(AliasTarget(r1))
    /\ ~Present(AliasTarget(r1))
    /\ Present(AliasTarget(AliasTarget(r1)))

\* C14: resolution is single-hop: when the target of alias r1 is itself
\* only an alias, of a stored entry, GetByReference(r1) fails with
\* NotFound: it returns neither a value nor any other error.
C14_SingleHop ==
    \A r1 \in EnginePool :
        AliasOfAlias(r1) => Is(GetByReferenceOf(r1).err, NotFound)

\* C15: in the file provider entries and references are separate maps:
\* Store and Remove never change the references, StoreReference and
\* RemoveReference never change the entries, and when x is made both a
\* data key and an alias, Get(x) still returns the value stored under x
\* and GetByReference(x) still resolves through the alias's target.
C15_DisjointNamespaces ==
    [][(backend = "file" /\ call = Idle) =>
          /\ call'.op \in {"Store", "Remove"} =>
                data'.References = data.References
          /\ call'.op \in {"StoreReference", "RemoveReference"} =>
                data'.DataMap = data.DataMap
          /\ \A x \in Pool, t \in Pool :
                /\ (call'.op = "StoreReference" /\ call'.args = <<x, t>> /\ Present(x)) =>
                      /\ GetOf(x)' = GetOf(x)
                      /\ GetByReferenceOf(x)' = GetOf(t)
                /\ (/\ call'.op = "Store" /\ call'.args[1] = x
                    /\ IsAlias(x) /\ AliasTarget(x) = t) =>
                      /\ GetOf(x)' = Ret(Nil, call'.args[2], <<>>, <<>>)
                      /\ GetByReferenceOf(x)' = GetOf(t)']_vars

\* C15 witness: StoreReference(x, t) was called on a stored data key x,
\* which is now both a data key and an alias of a stored entry.
C15_Witness ==
    /\ backend = "file"
    /\ call.op = "StoreReference" /\ call.was.entry
    /\ call.args[1] \in DOMAIN data.DataMap \cap DOMAIN data.References
    /\ call.args[2] # call.args[1]
    /\ GetByReferenceOf(call.args[1]).err = Nil

\* C16: in the engine provider references and entries share one keyspace
\* and nothing guards it: StoreReference(x, t) on a stored data key x
\* returns no error and replaces the entry, so Get(x) no longer returns
\* a value; Store(x, v) on a stored alias x returns no error and replaces
\* the reference, so GetByReference(x) no longer resolves; Remove(x) and
\* RemoveReference(x) delete whatever is stored under x.
C16_SharedKeyspace ==
    [][(backend = "badger" /\ call = Idle) =>
          \A x \in EnginePool :
              /\ (call'.op = "StoreReference" /\ call'.args[1] = x /\ Present(x)) =>
                    /\ ret'.err = Nil
                    /\ GetOf(x)'.err # Nil
                    /\ IsAlias(x)'
              /\ (call'.op = "Store" /\ call'.args[1] = x /\ IsAlias(x)) =>
                    /\ ret'.err = Nil
                    /\ GetOf(x)' = Ret(Nil, call'.args[2], <<>>, <<>>)
                    /\ ~IsAlias(x)'
                    /\ GetByReferenceOf(x)'.err # Nil
              /\ (call'.op \in {"Remove", "RemoveReference"} /\ call'.args[1] = x) =>
                    /\ keyToByte(keyType, x).b \notin DOMAIN db'
                    /\ ~Present(x)' /\ ~IsAlias(x)']_vars

\* C16 witness: StoreReference was called on a stored data key of the
\* engine provider, returned no error and Get of that key now fails.
C16_Witness ==
    /\ backend = "badger"
    /\ call.op = "StoreReference" /\ call.was.entry
    /\ ret.err = Nil
    /\ GetOf(call.args[1]).err # Nil

\* C20: whenever Store, StoreReference, Remove or RemoveReference of the
\* file provider returns an error, NotFound or a failed flush, the
\* in-memory entries and references are as they were before the call.
C20_ErrorLeavesMemory ==
    [][(/\ backend = "file" /\ call = Idle
        /\ call'.op \in {"Store", "StoreReference", "Remove", "RemoveReference"}
        /\ ret'.err # Nil) => data' = data]_vars

\* A goroutine is inside the critical section of a writer: between
\* p.mu.Lock() and p.mu.Unlock().
InWrite(t) == th[t].pc \in {"locked", "flush"}

\* A goroutine reads the maps: between p.mu.RLock() and p.mu.RUnlock().
InRead(t) == th[t].pc = "reading"

\* C18: at most one of Setup, Shutdown, Store, Remove, StoreReference and
\* RemoveReference is inside its critical section, and while one is no
\* Get, GetByReference or ForEach is reading the maps.
C18_LockDiscipline ==
    /\ Cardinality({t \in Threads : InWrite(t)}) <= 1
    /\ (\E t \in Threads : InWrite(t)) => ~(\E u \in Threads : InRead(u))

\* C18 witness: two readers read the maps at the same time.
C18_Witness ==
    /\ backend = "file"
    /\ Cardinality({t \in Threads : InRead(t)}) >= 2

\* C19: GetMultiple is not atomic: between two of its lookups the
\* goroutine holds no lock of the file provider (and is in no transaction
\* of the engine), so a writer can change the maps between them; when it
\* returns without error it returns one value per key, each read by a
\* lookup of its own.
C19_GetMultipleNotAtomic ==
    \A t \in Threads :
        (th[t].op = "GetMultiple" /\ th[t].pc \in {"between", "done"}) =>
            /\ t \notin mu.r /\ mu.w # t
            /\ (th[t].pc = "done" /\ th[t].err = Nil) =>
                  Len(th[t].vals) = Len(th[t].args[1])

\* C19 witness: one GetMultiple([k1, k2]) of a file provider whose
\* flushes succeed has returned a pair of values that were never stored
\* under k1 and k2 at the same instant.
C19_Witness ==
    \E t \in Threads :
        /\ backend = "file" /\ disk.writable
        /\ th[t].op = "GetMultiple" /\ th[t].pc = "done"
        /\ th[t].err = Nil
        /\ th[t].vals = TornPair
        /\ ~coexisted

\* The file decodes to the maps in memory.
FileIsMemory ==
    /\ disk.exists
    /\ Unmarshal(keyType, fileType, disk.text, EmptyData) = [err |-> Nil, data |-> data]

\* C17: on a path-based file provider, whenever no writer holds the
\* exclusive lock the file decodes to exactly the maps in memory, so no
\* reader sees maps that have not been written to the file.
C17_FileReflectsMemory ==
    (backend = "file" /\ cfg.Content = EmptyText) =>
        /\ mu.w = 0 => FileIsMemory
        /\ \A t \in Threads : InRead(t) => FileIsMemory

\* C21: under fair scheduling every call on the file provider returns,
\* also a ForEach whose visitor calls Store, Remove, StoreReference or
\* Get on the same provider: no goroutine stays in a call forever.
C21_EveryCallReturns ==
    \A t \in Threads : (th[t].pc # "idle") ~> (th[t].pc = "idle")

====
